---- MODULE Spec2Model ----
(***************************************************************************)
(* Relationship management of the social-networking backend: the follow    *)
(* graph kept on profile documents (server/concepts/profile.ts), the       *)
(* friend-request routes (routes.ts) and the chat documents                *)
(* (concepts/chat.ts).                                                     *)
(*                                                                         *)
(* A collection is the sequence of its documents in insertion order.       *)
(* readOne / partialUpdateOne / replaceOne act on the first document the   *)
(* filter matches.  ObjectIds are modelled as strings.                     *)
(***************************************************************************)
EXTENDS Integers, Sequences, FiniteSets, TLC

VARIABLES
    profiles,   \* the "profiles" collection: sequence of ProfileDoc
    last,       \* history: the last completed (or interrupted) profile operation
    procs,      \* in-flight async calls: process -> its position and locals
    db0,        \* history: the profiles collection before any concurrent call started
    requests,   \* pending friend requests: set of <<from, to>>
    requests0,  \* history: the pending requests when the current round of calls began
    friends,    \* the "friends" collection: sequence of edges <<user1, user2>>
    chats,      \* the "chats" collection: sequence of ChatDoc
    sent        \* history: messages whose sendMessage returned success

vars == <<profiles, last, procs, db0, requests, requests0, friends, chats, sent>>

----------------------------------------------------------------------------
(* Bounds and input sets *)

\* at most this many documents in the profiles collection
MaxDocs == 3

Users == {"alice", "bob"}

ConcUsers == Users \cup {"carol"}

Status == {"unverified", "verified"}

\* follower / following arrays a caller may put in an editProfile payload
PayloadArrays == {<<>>} \cup {<<u>> : u \in Users}

\* Partial<ProfileDoc> payloads of editProfile, over the fields
\* verificationStatus, followers and following (name, expertise, interests,
\* pastExperience, gender and userId are left out of the documents)
Payloads ==
    {[verificationStatus |-> s] : s \in Status}
    \cup {[followers |-> a] : a \in PayloadArrays}
    \cup {[following |-> a] : a \in PayloadArrays}
    \cup {[followers |-> a, following |-> b] : a \in PayloadArrays, b \in PayloadArrays}

FollowOk == "User followed successfully"

ProfileNotFoundError == "ProfileNotFoundError"

----------------------------------------------------------------------------
(* Storage collaborator (framework/doc.ts): first-match semantics *)

\* index of the first document of coll with the given userId, 0 when none
FindOne(coll, userId) ==
    IF \E i \in 1..Len(coll) : coll[i].userId = userId
    THEN CHOOSE i \in 1..Len(coll) :
            /\ coll[i].userId = userId
            /\ \A j \in 1..(i - 1) : coll[j].userId # userId
    ELSE 0

\* $set of the payload's fields on a document
SetFields(doc, update) ==
    [f \in DOMAIN doc |-> IF f \in DOMAIN update THEN update[f] ELSE doc[f]]

\* updateOne(filter, {$set: update}): the first match, nothing when none matches
PartialUpdateOne(coll, userId, update) ==
    LET i == FindOne(coll, userId) IN
    IF i = 0 THEN coll ELSE [coll EXCEPT ![i] = SetFields(coll[i], update)]

CreateOne(coll, doc) == Append(coll, doc)

----------------------------------------------------------------------------
(* ProfileConcept *)

NewProfile(userId) ==
    [userId |-> userId, verificationStatus |-> "unverified",
     followers |-> <<>>, following |-> <<>>]

Includes(arr, x) == \E i \in 1..Len(arr) : arr[i] = x

Push(arr, x) == Append(arr, x)

createProfile(coll, userId) == CreateOne(coll, NewProfile(userId))

editProfile(coll, userId, updatedInfo) == PartialUpdateOne(coll, userId, updatedInfo)

verifyProfile(coll, userId) ==
    PartialUpdateOne(coll, userId, [verificationStatus |-> "verified"])

\* profile.ts:56: the guard of the first write
MissingFollowerAlways(profile, userId) == TRUE

MissingFollower(profile, userId) == ~Includes(profile.followers, userId)

\* profile.ts:52-59: read the target, append the follower, write it back
FollowTargetSide(coll, userId, targetUserId) ==
    LET i == FindOne(coll, targetUserId) IN
    IF i = 0 THEN coll
    ELSE IF MissingFollower(coll[i], userId)
         THEN PartialUpdateOne(coll, targetUserId,
                               [followers |-> Push(coll[i].followers, userId)])
         ELSE coll

\* profile.ts:61-65 with the second write left out
FollowUserSideSkipped(coll, userId, targetUserId) == coll

\* profile.ts:61-65: read the caller's own profile, append the target, write it back
FollowUserSide(coll, userId, targetUserId) ==
    LET i == FindOne(coll, userId) IN
    IF i # 0 /\ ~Includes(coll[i].following, targetUserId)
    THEN PartialUpdateOne(coll, userId,
                          [following |-> Push(coll[i].following, targetUserId)])
    ELSE coll

\* followUser that returns as soon as the follower is already listed
followUserEarlyReturn(coll, userId, targetUserId) ==
    LET i == FindOne(coll, targetUserId) IN
    IF i = 0 THEN [coll |-> coll, res |-> ProfileNotFoundError]
    ELSE IF Includes(coll[i].followers, userId)
         THEN [coll |-> coll, res |-> FollowOk]
         ELSE [coll |-> FollowUserSide(FollowTargetSide(coll, userId, targetUserId),
                                       userId, targetUserId),
               res |-> FollowOk]

\* profile.ts:51-68, run without interleaving: the resulting collection and
\* the outcome (the success message or the error thrown)
followUser(coll, userId, targetUserId) ==
    IF FindOne(coll, targetUserId) = 0
    THEN [coll |-> coll, res |-> ProfileNotFoundError]
    ELSE [coll |-> FollowUserSide(FollowTargetSide(coll, userId, targetUserId),
                                  userId, targetUserId),
          res |-> FollowOk]

----------------------------------------------------------------------------
(* Read accessors on a collection *)

HasProfile(coll, userId) == FindOne(coll, userId) # 0

\* getFollowers / getFollowing of an existing profile
getFollowers(coll, userId) == coll[FindOne(coll, userId)].followers

getFollowing(coll, userId) == coll[FindOne(coll, userId)].following

\* A is listed as a follower of B (false when B has no profile)
IsFollower(coll, a, b) == HasProfile(coll, b) /\ Includes(getFollowers(coll, b), a)

\* B is listed in A's following (false when A has no profile)
IsFollowing(coll, a, b) == HasProfile(coll, a) /\ Includes(getFollowing(coll, a), b)

Count(arr, x) == Cardinality({i \in 1..Len(arr) : arr[i] = x})

----------------------------------------------------------------------------
(* Sequential profile operations: each handler runs to completion *)

NoOp == [op |-> "none", user |-> "none", target |-> "none", res |-> "none",
         again |-> FALSE, repair |-> FALSE]

Done(op, user, target, res) ==
    [op |-> op, user |-> user, target |-> target, res |-> res,
     again |-> /\ op = "followUser"
               /\ last.op = "followUser"
               /\ last.res = FollowOk
               /\ last.user = user
               /\ last.target = target,
     repair |-> /\ op = "followUser"
                /\ last.op = "followUserInterrupted"
                /\ last.user = user
                /\ last.target = target
                /\ ~IsFollowing(profiles, user, target)]

Others == UNCHANGED <<procs, db0, requests, requests0, friends, chats, sent>>

\* routes.ts:236-240 -> profile.ts:29-41
CreateProfile(u) ==
    /\ Len(profiles) < MaxDocs
    /\ profiles' = createProfile(profiles, u)
    /\ last' = Done("createProfile", u, u, "ok")
    /\ Others

\* routes.ts:242-246 -> profile.ts:43-45
EditProfile(u, updatedInfo) ==
    /\ profiles' = editProfile(profiles, u, updatedInfo)
    /\ last' = Done("editProfile", u, u, "ok")
    /\ Others

\* profile.ts:47-49
VerifyProfile(u) ==
    /\ profiles' = verifyProfile(profiles, u)
    /\ last' = Done("verifyProfile", u, u, "ok")
    /\ Others

\* routes.ts:255-261 -> profile.ts:51-68
FollowUser(u, t) ==
    LET r == followUser(profiles, u, t) IN
    /\ profiles' = r.coll
    /\ last' = Done("followUser", u, t, r.res)
    /\ Others

\* followUser stopped (process death, storage failure) after the write to
\* target.followers and before the write to user.following
FollowUserInterrupted(u, t) ==
    /\ HasProfile(profiles, t)
    /\ HasProfile(profiles, u)
    /\ profiles' = FollowTargetSide(profiles, u, t)
    /\ last' = Done("followUserInterrupted", u, t, "interrupted")
    /\ Others

Init ==
    /\ profiles = <<>>
    /\ last = NoOp
    /\ procs = <<>>
    /\ db0 = <<>>
    /\ requests = {}
    /\ requests0 = {}
    /\ friends = <<>>
    /\ chats = <<>>
    /\ sent = {}

Next ==
    \/ \E u \in Users : CreateProfile(u)
    \/ \E u \in Users : \E p \in Payloads : EditProfile(u, p)
    \/ \E u \in Users : VerifyProfile(u)
    \/ \E u \in Users : \E t \in Users : FollowUser(u, t)

Spec == Init /\ [][Next]_vars

NextRepair ==
    \/ Next
    \/ \E u \in Users : \E t \in Users : FollowUserInterrupted(u, t)

SpecRepair == Init /\ [][NextRepair]_vars

----------------------------------------------------------------------------
(* Claims about the sequential profile operations *)

\* C1: after any completed sequence of createProfile / editProfile /
\* verifyProfile / followUser, for all users A and B, A is in
\* profile(B).followers if and only if B is in profile(A).following.
C1_Symmetry ==
    \A a \in Users : \A b \in Users :
        IsFollower(profiles, a, b) <=> IsFollowing(profiles, a, b)

C3_MissingProfileFails ==
    (/\ last.op = "followUser"
     /\ \/ ~HasProfile(profiles, last.target)
        \/ ~HasProfile(profiles, last.user))
    => last.res = ProfileNotFoundError

C8_FollowFieldsOwned ==
    [][(last'.op \in {"createProfile", "editProfile", "verifyProfile"})
       => /\ Len(profiles') >= Len(profiles)
          /\ \A i \in 1..Len(profiles) :
                /\ profiles'[i].followers = profiles[i].followers
                /\ profiles'[i].following = profiles[i].following
          /\ \A i \in (Len(profiles) + 1)..Len(profiles') :
                /\ profiles'[i].followers = <<>>
                /\ profiles'[i].following = <<>>]_vars

----------------------------------------------------------------------------
(* Concurrent followUser calls: one step per storage round trip (await) *)

Procs == {"p1", "p2"}

UserOrder == <<"alice", "bob", "carol">>

\* a collection holding one fresh profile for each user of S
FreshProfiles(S) ==
    LET RECURSIVE build(_)
        build(i) == IF i = 0 THEN <<>>
                    ELSE IF UserOrder[i] \in S
                         THEN Append(build(i - 1), NewProfile(UserOrder[i]))
                         ELSE build(i - 1)
    IN build(Len(UserOrder))

IdleProc == [pc |-> "idle", user |-> "none", target |-> "none",
             doc |-> NewProfile("none"), res |-> "none"]

ConcOthers == UNCHANGED <<last, db0, requests, requests0, friends, chats, sent>>

\* profile.ts:52-57: await readOne({userId: targetUserId}), throw when absent,
\* push onto the copy read when the follower is not in it
ReadTarget(p, u, t) ==
    /\ procs[p].pc = "idle"
    /\ LET i == FindOne(profiles, t) IN
       procs' = [procs EXCEPT ![p] =
            IF i = 0
            THEN [IdleProc EXCEPT !.pc = "done", !.user = u, !.target = t,
                                  !.res = ProfileNotFoundError]
            ELSE IF MissingFollower(profiles[i], u)
                 THEN [IdleProc EXCEPT !.pc = "writeTarget", !.user = u, !.target = t,
                          !.doc = [profiles[i] EXCEPT
                                     !.followers = Push(profiles[i].followers, u)]]
                 ELSE [IdleProc EXCEPT !.pc = "readUser", !.user = u, !.target = t]]
    /\ UNCHANGED profiles
    /\ ConcOthers

\* profile.ts:58: await partialUpdateOne({userId: targetUserId}, {followers})
WriteTarget(p) ==
    /\ procs[p].pc = "writeTarget"
    /\ profiles' = PartialUpdateOne(profiles, procs[p].target,
                                    [followers |-> procs[p].doc.followers])
    /\ procs' = [procs EXCEPT ![p].pc = "readUser", ![p].doc = NewProfile("none")]
    /\ ConcOthers

\* profile.ts:61-63 and 67: await readOne({userId}), push onto the copy read
\* when the target is not in it, otherwise return the success message
ReadUser(p) ==
    /\ procs[p].pc = "readUser"
    /\ LET u == procs[p].user
           t == procs[p].target
           i == FindOne(profiles, u) IN
       procs' = [procs EXCEPT ![p] =
            IF i # 0 /\ ~Includes(profiles[i].following, t)
            THEN [@ EXCEPT !.pc = "writeUser",
                           !.doc = [profiles[i] EXCEPT
                                      !.following = Push(profiles[i].following, t)]]
            ELSE [@ EXCEPT !.pc = "done", !.res = FollowOk]]
    /\ UNCHANGED profiles
    /\ ConcOthers

\* profile.ts:64-67: await partialUpdateOne({userId}, {following}), return
WriteUser(p) ==
    /\ procs[p].pc = "writeUser"
    /\ profiles' = PartialUpdateOne(profiles, procs[p].user,
                                    [following |-> procs[p].doc.following])
    /\ procs' = [procs EXCEPT ![p].pc = "done", ![p].res = FollowOk,
                              ![p].doc = NewProfile("none")]
    /\ ConcOthers

InitConc ==
    /\ profiles \in {FreshProfiles(S) : S \in SUBSET ConcUsers}
    /\ db0 = profiles
    /\ procs = [p \in Procs |-> IdleProc]
    /\ last = NoOp
    /\ requests = {}
    /\ requests0 = {}
    /\ friends = <<>>
    /\ chats = <<>>
    /\ sent = {}

NextConc ==
    \/ \E p \in Procs : \E u \in ConcUsers : \E t \in ConcUsers : ReadTarget(p, u, t)
    \/ \E p \in Procs : WriteTarget(p)
    \/ \E p \in Procs : ReadUser(p)
    \/ \E p \in Procs : WriteUser(p)

SpecConc == InitConc /\ [][NextConc]_vars

\* the collection after running p's call and then q's call, each to completion
OneAfterAnother(p, q) ==
    followUser(followUser(db0, procs[p].user, procs[p].target).coll,
               procs[q].user, procs[q].target).coll

\* C5: once concurrent followUser calls for different (user, target) pairs
\* have all returned success, the profiles equal the result of running the
\* calls one after another, whatever the interleaving of their reads and
\* writes; in particular both followers of a common target are listed.
C5_ConcurrentFollowsIndependent ==
    \A p \in Procs : \A q \in Procs :
        (/\ p # q
         /\ procs[p].pc = "done" /\ procs[p].res = FollowOk
         /\ procs[q].pc = "done" /\ procs[q].res = FollowOk
         /\ <<procs[p].user, procs[p].target>> # <<procs[q].user, procs[q].target>>)
        => /\ profiles \in {OneAfterAnother(p, q), OneAfterAnother(q, p)}
           /\ (procs[p].target = procs[q].target
                 => /\ IsFollower(profiles, procs[p].user, procs[p].target)
                    /\ IsFollower(profiles, procs[q].user, procs[q].target))

----------------------------------------------------------------------------
(* Friend requests: the routes of routes.ts over the Request Store *)

Usernames == {"@alice", "@bob", "@nobody"}

\* Authing.getUserByUsername: the identity of a handle, "none" when unknown
UserOf(name) ==
    CASE name = "@alice" -> "alice"
      [] name = "@bob" -> "bob"
      [] OTHER -> "none"

Resolvers == {"accept", "reject", "remove"}

FriendOps == Resolvers \cup {"send", "unfriend"}

FriendOk == "ok"

AreFriends(coll, a, b) ==
    \E i \in 1..Len(coll) : coll[i] = <<a, b>> \/ coll[i] = <<b, a>>

\* the collection without its first edge between a and b
PopEdge(coll, a, b) ==
    LET i == CHOOSE k \in 1..Len(coll) :
                /\ coll[k] \in {<<a, b>>, <<b, a>>}
                /\ \A j \in 1..(k - 1) : coll[j] \notin {<<a, b>>, <<b, a>>}
    IN [k \in 1..(Len(coll) - 1) |-> IF k < i THEN coll[k] ELSE coll[k + 1]]

\* Friending.getFriends(user): the other end of every edge of user
getFriends(coll, user) ==
    {coll[i][2] : i \in {k \in 1..Len(coll) : coll[k][1] = user}}
    \cup {coll[i][1] : i \in {k \in 1..Len(coll) : coll[k][2] = user}}

\* Friending.getRequests(user): the senders of the requests pending for user
getRequests(reqs, user) == {r[1] : r \in {x \in reqs : x[2] = user}}

\* Friending.sendRequest(from, to)
sendRequest(reqs, coll, from, to) ==
    IF from = to THEN [reqs |-> reqs, coll |-> coll, res |-> "SelfRequestError"]
    ELSE IF AreFriends(coll, from, to)
    THEN [reqs |-> reqs, coll |-> coll, res |-> "AlreadyFriendsError"]
    ELSE IF <<from, to>> \in reqs \/ <<to, from>> \in reqs
    THEN [reqs |-> reqs, coll |-> coll, res |-> "DuplicateRequestError"]
    ELSE [reqs |-> reqs \cup {<<from, to>>}, coll |-> coll, res |-> FriendOk]

\* Friending.removeRequest(from, to) and Friending.rejectRequest(from, to):
\* the pending request is discarded, or the call fails
discardRequest(reqs, coll, from, to) ==
    IF <<from, to>> \notin reqs
    THEN [reqs |-> reqs, coll |-> coll, res |-> "RequestNotFoundError"]
    ELSE [reqs |-> reqs \ {<<from, to>>}, coll |-> coll, res |-> FriendOk]

\* Friending.acceptRequest(from, to): the pending request is consumed and the
\* edge created in one step
acceptRequest(reqs, coll, from, to) ==
    IF <<from, to>> \notin reqs
    THEN [reqs |-> reqs, coll |-> coll, res |-> "RequestNotFoundError"]
    ELSE [reqs |-> reqs \ {<<from, to>>}, coll |-> Append(coll, <<from, to>>),
          res |-> FriendOk]

\* Friending.removeFriend(user, friend)
removeFriend(reqs, coll, user, friend) ==
    IF ~AreFriends(coll, user, friend)
    THEN [reqs |-> reqs, coll |-> coll, res |-> "FriendshipNotFoundError"]
    ELSE [reqs |-> reqs, coll |-> PopEdge(coll, user, friend), res |-> FriendOk]

\* the accept route with its two arguments exchanged
acceptFriendRequestSwapped(reqs, coll, user, fromOid) ==
    acceptRequest(reqs, coll, user, fromOid)

\* routes.ts:146: Friending.acceptRequest(fromOid, user)
acceptFriendRequest(reqs, coll, user, fromOid) ==
    acceptRequest(reqs, coll, fromOid, user)

\* the reject route with its two arguments exchanged
rejectFriendRequestSwapped(reqs, coll, user, fromOid) ==
    discardRequest(reqs, coll, user, fromOid)

\* routes.ts:153: Friending.rejectRequest(fromOid, user)
rejectFriendRequest(reqs, coll, user, fromOid) ==
    discardRequest(reqs, coll, fromOid, user)

\* routes.ts:139: Friending.removeRequest(user, toOid)
removeFriendRequest(reqs, coll, user, toOid) ==
    discardRequest(reqs, coll, user, toOid)

\* routes.ts:132: Friending.sendRequest(user, toOid)
sendFriendRequest(reqs, coll, user, toOid) ==
    sendRequest(reqs, coll, user, toOid)

\* routes.ts:119: Friending.removeFriend(user, friendOid)
removeFriendRoute(reqs, coll, user, friendOid) ==
    removeFriend(reqs, coll, user, friendOid)

IdleRoute == [pc |-> "idle", op |-> "none", session |-> "none", name |-> "none",
              oid |-> "none", res |-> "none"]

FriendOthers == UNCHANGED <<profiles, last, db0, chats, sent>>

\* first half of a friend route: Sessioning.getUser(session), then
\* await Authing.getUserByUsername(name), which throws for an unknown handle
ResolveUser(p, op, session, name) ==
    /\ procs[p].pc = "idle"
    /\ procs' = [procs EXCEPT ![p] =
            IF UserOf(name) = "none"
            THEN [pc |-> "done", op |-> op, session |-> session, name |-> name,
                  oid |-> "none", res |-> "NotFoundError"]
            ELSE [pc |-> "resolved", op |-> op, session |-> session, name |-> name,
                  oid |-> UserOf(name), res |-> "none"]]
    /\ UNCHANGED <<requests, requests0, friends>>
    /\ FriendOthers

\* second half of a friend route: the call into the Friending concept
CallFriending(p) ==
    /\ procs[p].pc = "resolved"
    /\ LET user == procs[p].session
           oid == procs[p].oid
           op == procs[p].op
           r == CASE op = "send" -> sendFriendRequest(requests, friends, user, oid)
                  [] op = "remove" -> removeFriendRequest(requests, friends, user, oid)
                  [] op = "accept" -> acceptFriendRequest(requests, friends, user, oid)
                  [] op = "reject" -> rejectFriendRequest(requests, friends, user, oid)
                  [] OTHER -> removeFriendRoute(requests, friends, user, oid)
       IN /\ requests' = r.reqs
          /\ friends' = r.coll
          /\ procs' = [procs EXCEPT ![p].pc = "done", ![p].res = r.res]
    /\ UNCHANGED requests0
    /\ FriendOthers

\* every call of the round has returned: the next round of calls may start
NextRound ==
    /\ \A p \in Procs : procs[p].pc # "resolved"
    /\ \E p \in Procs : procs[p].pc = "done"
    /\ procs' = [p \in Procs |-> IdleRoute]
    /\ requests0' = requests
    /\ UNCHANGED <<requests, friends>>
    /\ FriendOthers

InitFriend ==
    /\ profiles = <<>>
    /\ last = NoOp
    /\ db0 = <<>>
    /\ procs = [p \in Procs |-> IdleRoute]
    /\ requests = {}
    /\ requests0 = {}
    /\ friends = <<>>
    /\ chats = <<>>
    /\ sent = {}

NextFriend ==
    \/ \E p \in Procs : \E op \in FriendOps : \E u \in Users : \E n \in Usernames :
            ResolveUser(p, op, u, n)
    \/ \E p \in Procs : CallFriending(p)
    \/ NextRound

SpecFriend == InitFriend /\ [][NextFriend]_vars

\* the request <<from, to>> a resolver call is aimed at
RequestOf(call) ==
    IF call.op = "remove" THEN <<call.session, UserOf(call.name)>>
    ELSE <<UserOf(call.name), call.session>>

EdgeCount(coll, a, b) ==
    Cardinality({i \in 1..Len(coll) : coll[i] \in {<<a, b>>, <<b, a>>}})

C7_AcceptConsumesRequest ==
    [][\A p \in Procs :
        (/\ procs[p].pc = "resolved"
         /\ procs[p].op = "accept"
         /\ procs'[p].pc = "done"
         /\ procs'[p].res = FriendOk)
        => LET a == UserOf(procs[p].name)
               b == procs[p].session IN
           /\ a \in getRequests(requests, b)
           /\ a \notin getRequests(requests', b)
           /\ b \in getFriends(friends', a)
           /\ a \in getFriends(friends', b)]_vars

\* bob's accept of alice's request has returned success: they are friends
\* and bob's inbox is empty
C7_Witness ==
    \E p \in Procs :
        /\ procs[p].pc = "done" /\ procs[p].op = "accept" /\ procs[p].res = FriendOk
        /\ procs[p].name = "@alice" /\ procs[p].session = "bob"
        /\ getFriends(friends, "alice") = {"bob"}
        /\ getFriends(friends, "bob") = {"alice"}
        /\ getRequests(requests, "bob") = {}

----------------------------------------------------------------------------
(* ChatConcept: sendMessage and leaveChat read the document, then replace it *)

\* at most this many documents in the chats collection
MaxChats == 1

ChatIds == 1..2

Texts == {"hi", "yo"}

MessageSent == "Message sent successfully"

\* index of the chat with the given _id, 0 when none
FindChat(coll, chatId) ==
    IF \E i \in 1..Len(coll) : coll[i].id = chatId
    THEN CHOOSE i \in 1..Len(coll) : coll[i].id = chatId
    ELSE 0

\* replaceOne({_id: chatId}, doc): the stored document becomes doc
ReplaceOne(coll, chatId, doc) ==
    LET i == FindChat(coll, chatId) IN
    IF i = 0 THEN coll ELSE [coll EXCEPT ![i] = [doc EXCEPT !.id = coll[i].id]]

\* participants.filter((participant) => !participant.equals(userId))
WithoutUser(arr, userId) == SelectSeq(arr, LAMBDA x : x # userId)

NoChat == [id |-> 0, type |-> "Private", participants |-> <<>>, messages |-> <<>>]

IdleChat == [pc |-> "idle", op |-> "none", chatId |-> 0, user |-> "none",
             msg |-> [author |-> "none", text |-> "none"], doc |-> NoChat,
             res |-> "none"]

ChatOthers == UNCHANGED <<profiles, last, db0, requests, requests0, friends>>

\* chat.ts:29-31: createOne gives the new document its _id
StartPrivateChat(user1, user2) ==
    /\ Len(chats) < MaxChats
    /\ chats' = Append(chats, [id |-> Len(chats) + 1, type |-> "Private",
                               participants |-> <<user1, user2>>, messages |-> <<>>])
    /\ UNCHANGED <<procs, sent>>
    /\ ChatOthers

\* chat.ts:38-44: await readOne({_id: chatId}), throw when absent, push the
\* new message onto the copy read
SendRead(p, chatId, author, text) ==
    /\ procs[p].pc = "idle"
    /\ LET i == FindChat(chats, chatId)
           newMessage == [author |-> author, text |-> text] IN
       procs' = [procs EXCEPT ![p] =
            IF i = 0
            THEN [IdleChat EXCEPT !.pc = "done", !.op = "sendMessage",
                                  !.chatId = chatId, !.user = author,
                                  !.res = "ChatNotFoundError"]
            ELSE [IdleChat EXCEPT !.pc = "replace", !.op = "sendMessage",
                                  !.chatId = chatId, !.user = author,
                                  !.msg = newMessage,
                                  !.doc = [chats[i] EXCEPT
                                            !.messages = Push(chats[i].messages,
                                                              newMessage)]]]
    /\ UNCHANGED <<chats, sent>>
    /\ ChatOthers

\* chat.ts:45-46: await replaceOne({_id: chatId}, chat), return success
SendReplace(p) ==
    /\ procs[p].pc = "replace"
    /\ procs[p].op = "sendMessage"
    /\ chats' = ReplaceOne(chats, procs[p].chatId, procs[p].doc)
    /\ procs' = [procs EXCEPT ![p].pc = "done", ![p].res = MessageSent,
                              ![p].doc = NoChat]
    /\ sent' = sent \cup {[chatId |-> procs[p].chatId, msg |-> procs[p].msg]}
    /\ ChatOthers

\* chat.ts:58-63: await readOne({_id: chatId}), throw when absent, filter the
\* participants of the copy read
LeaveRead(p, chatId, userId) ==
    /\ procs[p].pc = "idle"
    /\ LET i == FindChat(chats, chatId) IN
       procs' = [procs EXCEPT ![p] =
            IF i = 0
            THEN [IdleChat EXCEPT !.pc = "done", !.op = "leaveChat",
                                  !.chatId = chatId, !.user = userId,
                                  !.res = "ChatNotFoundError"]
            ELSE [IdleChat EXCEPT !.pc = "replace", !.op = "leaveChat",
                                  !.chatId = chatId, !.user = userId,
                                  !.doc = [chats[i] EXCEPT
                                            !.participants =
                                                WithoutUser(chats[i].participants,
                                                            userId)]]]
    /\ UNCHANGED <<chats, sent>>
    /\ ChatOthers

\* chat.ts:64-65: await replaceOne({_id: chatId}, chat), return success
LeaveReplace(p) ==
    /\ procs[p].pc = "replace"
    /\ procs[p].op = "leaveChat"
    /\ chats' = ReplaceOne(chats, procs[p].chatId, procs[p].doc)
    /\ procs' = [procs EXCEPT ![p].pc = "done", ![p].res = "Left chat successfully",
                              ![p].doc = NoChat]
    /\ UNCHANGED sent
    /\ ChatOthers

InitChat ==
    /\ profiles = <<>>
    /\ last = NoOp
    /\ db0 = <<>>
    /\ procs = [p \in Procs |-> IdleChat]
    /\ requests = {}
    /\ requests0 = {}
    /\ friends = <<>>
    /\ chats = <<>>
    /\ sent = {}

NextChat ==
    \/ \E a \in Users : \E b \in Users : StartPrivateChat(a, b)
    \/ \E p \in Procs : \E c \in ChatIds : \E a \in Users : \E t \in Texts :
            SendRead(p, c, a, t)
    \/ \E p \in Procs : SendReplace(p)
    \/ \E p \in Procs : \E c \in ChatIds : \E u \in Users : LeaveRead(p, c, u)
    \/ \E p \in Procs : LeaveReplace(p)

SpecChat == InitChat /\ [][NextChat]_vars

\* C10: every sendMessage that returned "Message sent successfully" has its
\* message in the chat's messages array, whatever the interleaving of
\* concurrent sendMessage and leaveChat calls on that chat.
C10_NoLostMessages ==
    \A s \in sent :
        /\ FindChat(chats, s.chatId) # 0
        /\ Includes(chats[FindChat(chats, s.chatId)].messages, s.msg)

====
